---- MODULE Spec2Model ----
(***************************************************************************)
(* Model of make_bingo_from_csv.py: read_songs, pick_card_songs, draw_card *)
(* and the generation loop of main().                                      *)
(*                                                                         *)
(* Text is a sequence of one-character strings.  The card size (16 in the  *)
(* source, a 4x4 grid) is scaled down to GridRows x GridCols cells; every  *)
(* literal 16 of the source is CardSize here.                              *)
(***************************************************************************)
EXTENDS Integers, Sequences, FiniteSets, TLC

\* ------------------------------------------------------------------ sizes
\* rows, cols of draw_card (4, 4 in the source)
GridRows == 2
GridCols == 2

\* bounds of the inputs
MaxCards == 2
MaxSeed == 1
RngMod == 16
MaxRows == 2
MaxFirstLen == 1

\* the k passed to pick_card_songs, the warning limit and the --allow-short default
CardSize == GridRows * GridCols
\* width of wrap_label
WrapWidth == 18

MaxPool == MaxCards * CardSize
\* pools explored when the across-card filter is off (every card is then drawn
\* from the whole pool)
MaxOpenPool == CardSize

VARIABLES csv, args, pc, rng, songs, used, picks, cards, card_idx, pdf, stderr, stdout

vars == <<csv, args, pc, rng, songs, used, picks, cards, card_idx, pdf, stderr, stdout>>

Runs == DOMAIN pc

\* ------------------------------------------------------------------ text
Range(s) == {s[i] : i \in DOMAIN s}

SeqsUpTo(S, n) == UNION {[1..m -> S] : m \in 0..n}

\* str.lower on the characters of the model
LowerChar(c) == IF c = "A" THEN "a" ELSE IF c = "B" THEN "b" ELSE c

Lower(s) == [i \in DOMAIN s |-> LowerChar(s[i])]

RECURSIVE LStrip(_)
LStrip(s) == IF s /= <<>> /\ Head(s) = " " THEN LStrip(Tail(s)) ELSE s

RECURSIVE RStrip(_)
RStrip(s) ==
    IF s /= <<>> /\ s[Len(s)] = " " THEN RStrip(SubSeq(s, 1, Len(s) - 1)) ELSE s

\* str.strip
Strip(s) == RStrip(LStrip(s))

\* str.lower on the header names of the model
LowerName(h) ==
    IF h = "Title" THEN "title"
    ELSE IF h = "Artists" THEN "artists"
    ELSE IF h = "TRACK" THEN "track"
    ELSE h

\* ------------------------------------------------------------------ read_songs
\* cols = {c.lower(): c for c in fieldnames}; cols.get(name): the last field whose
\* lower-cased name is name, 0 when there is none
ColGet(fieldnames, name) ==
    LET hits == {i \in DOMAIN fieldnames : LowerName(fieldnames[i]) = name}
    IN  IF hits = {} THEN 0 ELSE CHOOSE i \in hits : \A j \in hits : j <= i

TitleCol(fieldnames) ==
    IF ColGet(fieldnames, "title") /= 0 THEN ColGet(fieldnames, "title")
    ELSE IF ColGet(fieldnames, "track") /= 0 THEN ColGet(fieldnames, "track")
    ELSE ColGet(fieldnames, "name")

ArtistCol(fieldnames) ==
    IF ColGet(fieldnames, "artists") /= 0 THEN ColGet(fieldnames, "artists")
    ELSE ColGet(fieldnames, "artist")

\* the rows with a non-empty title and artist after trimming, as (t, a)
RECURSIVE ReadRows(_, _, _)
ReadRows(rows, tc, ac) ==
    IF rows = <<>> THEN <<>>
    ELSE LET t == Strip(Head(rows)[tc])
             a == Strip(Head(rows)[ac])
         IN  (IF t /= <<>> /\ a /= <<>> THEN << <<t, a>> >> ELSE <<>>)
                 \o ReadRows(Tail(rows), tc, ac)

SongKey(s) == <<Lower(s[1]), Lower(s[2])>>

\* read_songs comparing the pairs as written
RECURSIVE DedupFromExact(_, _, _)
DedupFromExact(list, uniq, seen) ==
    IF list = <<>> THEN uniq
    ELSE LET key == Head(list)
         IN  IF key \notin seen
             THEN DedupFromExact(Tail(list), Append(uniq, Head(list)), seen \cup {key})
             ELSE DedupFromExact(Tail(list), uniq, seen)

RECURSIVE DedupFrom(_, _, _)
DedupFrom(list, uniq, seen) ==
    IF list = <<>> THEN uniq
    ELSE LET key == SongKey(Head(list))
         IN  IF key \notin seen
             THEN DedupFrom(Tail(list), Append(uniq, Head(list)), seen \cup {key})
             ELSE DedupFrom(Tail(list), uniq, seen)

Dedup(list) == DedupFrom(list, <<>>, {})

\* [ok |-> FALSE] is the SystemExit of a table without the two columns
ReadSongs(file) ==
    LET tc == TitleCol(file.fieldnames)
        ac == ArtistCol(file.fieldnames)
    IN  IF tc = 0 \/ ac = 0
        THEN [ok |-> FALSE, songs |-> <<>>]
        ELSE [ok |-> TRUE, songs |-> Dedup(ReadRows(file.rows, tc, ac))]

\* ------------------------------------------------------------------ random
\* random.sample(population, k) draws k times randbelow(n - i) and moves the
\* last live element into the hole; js are the values randbelow returned
RECURSIVE SampleWith(_, _)
SampleWith(pl, js) ==
    IF js = <<>> THEN <<>>
    ELSE LET n == Len(pl)
             j == Head(js) + 1
             rest == [x \in 1..(n - 1) |-> IF x = j THEN pl[n] ELSE pl[x]]
         IN  <<pl[j]>> \o SampleWith(rest, Tail(js))

\* a sample that returns what it can instead of raising
RandomSampleNoRaise(population, k, js) ==
    [ok |-> TRUE,
     list |-> IF k < 0 \/ k > Len(population) THEN <<>> ELSE SampleWith(population, js)]

\* random.sample raises ValueError unless 0 <= k <= len(population)
RandomSample(population, k, js) ==
    IF k < 0 \/ k > Len(population)
    THEN [ok |-> FALSE, list |-> <<>>]
    ELSE [ok |-> TRUE, list |-> SampleWith(population, js)]

\* the generator: seeded it is a deterministic stream, unseeded (OS entropy)
\* nothing is known of its output
RngStep(x) == (5 * x + 3) % RngMod

RECURSIVE RngAfter(_, _)
RngAfter(x, k) == IF k = 0 THEN x ELSE RngAfter(RngStep(x), k - 1)

SeededDraws(x, n, k) == [i \in 1..k |-> RngAfter(x, i - 1) % (n - i + 1)]

\* the i-th of the k calls is randbelow(n - i + 1)
RECURSIVE AllDraws(_, _)
AllDraws(n, k) ==
    IF k = 0 THEN {<<>>}
    ELSE {<<j>> \o rest : j \in 0..(n - 1), rest \in AllDraws(n - 1, k - 1)}

\* the values randbelow can return to one random.sample(population of n, k)
Draws(g, n, k) ==
    IF k < 0 \/ k > n THEN {<<>>}
    ELSE IF g.seeded THEN {SeededDraws(g.x, n, k)}
    ELSE AllDraws(n, k)

RngNext(g, n, k) ==
    IF k < 0 \/ k > n \/ ~g.seeded THEN g ELSE [g EXCEPT !.x = RngAfter(g.x, k)]

\* main without the random.seed call
InitRngUnseeded(seed) == [seeded |-> FALSE, x |-> 0]

\* if args.seed is not None: random.seed(args.seed)
InitRng(seed) ==
    IF seed /= <<>> THEN [seeded |-> TRUE, x |-> seed[1] % RngMod]
    ELSE [seeded |-> FALSE, x |-> 0]

\* ------------------------------------------------------------------ pick_card_songs
RECURSIVE Filter(_, _)
Filter(list, keep) ==
    IF list = <<>> THEN <<>>
    ELSE (IF Head(list) \in keep THEN <<Head(list)>> ELSE <<>>) \o Filter(Tail(list), keep)

\* the filter with the test inverted (s in used)
AvailableInverted(pool, usedset, no_repeat_across) ==
    IF no_repeat_across THEN Filter(pool, Range(pool) \cap usedset) ELSE pool

Available(pool, usedset, no_repeat_across) ==
    IF no_repeat_across THEN Filter(pool, Range(pool) \ usedset) ELSE pool

\* the population and the count of the one random.sample call
SamplePopulation(pool, k, usedset, no_repeat_across) ==
    LET available == Available(pool, usedset, no_repeat_across)
    IN  IF Len(available) >= k THEN available ELSE pool

SampleCount(pool, k, usedset, no_repeat_across) ==
    LET available == Available(pool, usedset, no_repeat_across)
    IN  IF Len(available) >= k THEN k ELSE k - Len(available)

\* used.add for the sampled tracks only, not for the rest of the picks
PickCardSongsAddSampled(pool, k, usedset, no_repeat_across, js) ==
    LET available == Available(pool, usedset, no_repeat_across)
        sample == IF Len(available) >= k
                  THEN RandomSample(available, k, js)
                  ELSE RandomSample(pool, k - Len(available), js)
        result == IF Len(available) >= k THEN sample.list ELSE available \o sample.list
    IN  IF ~sample.ok
        THEN [ok |-> FALSE, picks |-> <<>>, used |-> usedset]
        ELSE [ok |-> TRUE, picks |-> result,
              used |-> IF no_repeat_across THEN usedset \cup Range(sample.list) ELSE usedset]

\* the shortage branch without available[:]
PickCardSongsDropAvailable(pool, k, usedset, no_repeat_across, js) ==
    LET available == Available(pool, usedset, no_repeat_across)
        sample == IF Len(available) >= k
                  THEN RandomSample(available, k, js)
                  ELSE RandomSample(pool, k - Len(available), js)
        result == sample.list
    IN  IF ~sample.ok
        THEN [ok |-> FALSE, picks |-> <<>>, used |-> usedset]
        ELSE [ok |-> TRUE, picks |-> result,
              used |-> IF no_repeat_across THEN usedset \cup Range(result) ELSE usedset]

PickCardSongs(pool, k, usedset, no_repeat_across, js) ==
    LET available == Available(pool, usedset, no_repeat_across)
        sample == IF Len(available) >= k
                  THEN RandomSample(available, k, js)
                  ELSE RandomSample(pool, k - Len(available), js)
        result == IF Len(available) >= k THEN sample.list ELSE available \o sample.list
    IN  IF ~sample.ok
        THEN [ok |-> FALSE, picks |-> <<>>, used |-> usedset]
        ELSE [ok |-> TRUE, picks |-> result,
              used |-> IF no_repeat_across THEN usedset \cup Range(result) ELSE usedset]

\* ------------------------------------------------------------------ rendering
\* the f-string of title, dash and artist; "-" stands for the em dash
Label(s) == s[1] \o <<" ", "-", " ">> \o s[2]

\* the words of a text (maximal runs without blanks)
RECURSIVE Words(_, _)
Words(s, cur) ==
    IF s = <<>> THEN (IF cur = <<>> THEN <<>> ELSE <<cur>>)
    ELSE IF Head(s) = " "
         THEN (IF cur = <<>> THEN <<>> ELSE <<cur>>) \o Words(Tail(s), <<>>)
         ELSE Words(Tail(s), Append(cur, Head(s)))

\* textwrap.wrap fills lines greedily up to width, breaking a longer word;
\* "\n".join puts a newline between the lines
RECURSIVE WrapWords(_, _, _)
WrapWords(ws, line, width) ==
    IF ws = <<>> THEN line
    ELSE LET w == Head(ws)
         IN  IF line = <<>>
             THEN IF Len(w) <= width
                  THEN WrapWords(Tail(ws), w, width)
                  ELSE SubSeq(w, 1, width) \o <<"\n">>
                       \o WrapWords(<<SubSeq(w, width + 1, Len(w))>> \o Tail(ws), <<>>, width)
             ELSE IF Len(line) + 1 + Len(w) <= width
                  THEN WrapWords(Tail(ws), line \o <<" ">> \o w, width)
                  ELSE line \o <<"\n">> \o WrapWords(ws, <<>>, width)

WrapLabel(text, width) == WrapWords(Words(text, <<>>), <<>>, width)

\* the texts of the grid cells, row by row; items[idx] raises IndexError when
\* the list is shorter than the grid
DrawCard(items) ==
    IF Len(items) < GridRows * GridCols
    THEN [ok |-> FALSE, cells |-> <<>>]
    ELSE [ok |-> TRUE,
          cells |-> [r \in 0..(GridRows - 1) |->
                        [c \in 0..(GridCols - 1) |->
                            WrapLabel(items[r * GridCols + c + 1], WrapWidth)]]]

\* ------------------------------------------------------------------ inputs
Digits == <<"0", "1", "2", "3", "4", "5", "6", "7", "8", "9">>

RECURSIVE NumText(_)
NumText(i) == IF i < 10 THEN <<Digits[i + 1]>> ELSE NumText(i \div 10) \o <<Digits[(i % 10) + 1]>>

\* a table of p rows with pairwise different keys, as the exporter writes it
TrackRow(i) == <<NumText(i), IF i % 2 = 0 THEN <<"x">> ELSE <<"y">> >>

TrackTable(p) == [fieldnames |-> <<"title", "artists">>, rows |-> [i \in 1..p |-> TrackRow(i)]]

Seeds == {<<>>} \cup {<<s>> : s \in 0..MaxSeed}

AllowShorts == {CardSize - 1, CardSize, CardSize + 1}

ArgSets == [n : 0..MaxCards, no_repeat_across : BOOLEAN, allow_short : AllowShorts, seed : Seeds]

\* the flag main passes to pick_card_songs
Enforce(a, pool) == a.no_repeat_across /\ Len(pool) >= a.allow_short

InitRun(ids) ==
    /\ pc = [r \in ids |-> "start"]
    /\ rng = [r \in ids |-> [seeded |-> FALSE, x |-> 0]]
    /\ songs = [r \in ids |-> <<>>]
    /\ used = [r \in ids |-> {}]
    /\ picks = [r \in ids |-> <<>>]
    /\ cards = [r \in ids |-> <<>>]
    /\ card_idx = [r \in ids |-> 0]
    /\ pdf = [r \in ids |-> [state |-> "none", pages |-> <<>>]]
    /\ stderr = [r \in ids |-> <<>>]
    /\ stdout = [r \in ids |-> <<>>]

Init ==
    /\ args \in ArgSets
    /\ \E p \in 0..MaxPool :
           /\ (args.no_repeat_across /\ p >= args.allow_short) \/ p <= MaxOpenPool
           /\ csv = TrackTable(p)
    /\ InitRun({1})

\* ------------------------------------------------------------------ main
\* lines 113-121: seed, read the table, warn, open the document
Setup(r) ==
    /\ pc[r] = "start"
    /\ LET read == ReadSongs(csv)
       IN  /\ rng' = [rng EXCEPT ![r] = InitRng(args.seed)]
           /\ songs' = [songs EXCEPT ![r] = read.songs]
           /\ IF ~read.ok
              THEN /\ pc' = [pc EXCEPT ![r] = "failed"]
                   /\ stderr' = [stderr EXCEPT ![r] = Append(@, "columns")]
                   /\ pdf' = pdf
              ELSE /\ pc' = [pc EXCEPT ![r] = "loop"]
                   /\ stderr' = [stderr EXCEPT ![r] =
                          IF Len(read.songs) < CardSize /\ args.no_repeat_across
                          THEN Append(@, "not enough") ELSE @]
                   /\ pdf' = [pdf EXCEPT ![r].state = "open"]
    /\ used' = [used EXCEPT ![r] = {}]
    /\ UNCHANGED <<csv, args, picks, cards, card_idx, stdout>>

\* line 123: one pick_card_songs call; a ValueError leaves the with block,
\* which closes the document, and ends the run
PickCard(r) ==
    /\ pc[r] = "loop"
    /\ card_idx[r] < args.n
    /\ LET flag == Enforce(args, songs[r])
           n == Len(SamplePopulation(songs[r], CardSize, used[r], flag))
           k == SampleCount(songs[r], CardSize, used[r], flag)
       IN  \E js \in Draws(rng[r], n, k) :
               LET res == PickCardSongs(songs[r], CardSize, used[r], flag, js)
               IN  /\ rng' = [rng EXCEPT ![r] = RngNext(@, n, k)]
                   /\ used' = [used EXCEPT ![r] = res.used]
                   /\ IF res.ok
                      THEN /\ picks' = [picks EXCEPT ![r] = res.picks]
                           /\ cards' = [cards EXCEPT ![r] = Append(@, res.picks)]
                           /\ pc' = [pc EXCEPT ![r] = "picked"]
                           /\ pdf' = pdf
                           /\ stderr' = stderr
                      ELSE /\ picks' = picks
                           /\ cards' = cards
                           /\ pc' = [pc EXCEPT ![r] = "failed"]
                           /\ pdf' = [pdf EXCEPT ![r].state = "closed"]
                           /\ stderr' = [stderr EXCEPT ![r] = Append(@, "ValueError")]
    /\ UNCHANGED <<csv, args, songs, card_idx, stdout>>

\* the page header numbered from card_idx instead of card_idx + 1
AppendPageZeroBased(r) ==
    /\ pc[r] = "picked"
    /\ LET labels == [i \in DOMAIN picks[r] |-> Label(picks[r][i])]
           grid == DrawCard(labels)
       IN  IF grid.ok
           THEN /\ pdf' = [pdf EXCEPT ![r].pages =
                               Append(@, [number |-> card_idx[r], cells |-> grid.cells])]
                /\ card_idx' = [card_idx EXCEPT ![r] = @ + 1]
                /\ pc' = [pc EXCEPT ![r] = "loop"]
                /\ stderr' = stderr
           ELSE /\ pdf' = [pdf EXCEPT ![r].state = "closed"]
                /\ card_idx' = card_idx
                /\ pc' = [pc EXCEPT ![r] = "failed"]
                /\ stderr' = [stderr EXCEPT ![r] = Append(@, "IndexError")]
    /\ UNCHANGED <<csv, args, rng, songs, used, picks, cards, stdout>>

\* lines 124-141: labels, header, grid, pdf.savefig
AppendPage(r) ==
    /\ pc[r] = "picked"
    /\ LET labels == [i \in DOMAIN picks[r] |-> Label(picks[r][i])]
           grid == DrawCard(labels)
       IN  IF grid.ok
           THEN /\ pdf' = [pdf EXCEPT ![r].pages =
                               Append(@, [number |-> card_idx[r] + 1, cells |-> grid.cells])]
                /\ card_idx' = [card_idx EXCEPT ![r] = @ + 1]
                /\ pc' = [pc EXCEPT ![r] = "loop"]
                /\ stderr' = stderr
           ELSE /\ pdf' = [pdf EXCEPT ![r].state = "closed"]
                /\ card_idx' = card_idx
                /\ pc' = [pc EXCEPT ![r] = "failed"]
                /\ stderr' = [stderr EXCEPT ![r] = Append(@, "IndexError")]
    /\ UNCHANGED <<csv, args, rng, songs, used, picks, cards, stdout>>

\* the loop is over: the with block closes the document, line 143 reports
Finish(r) ==
    /\ pc[r] = "loop"
    /\ card_idx[r] >= args.n
    /\ pdf' = [pdf EXCEPT ![r].state = "closed"]
    /\ stdout' = [stdout EXCEPT ![r] = Append(@, args.n)]
    /\ pc' = [pc EXCEPT ![r] = "done"]
    /\ UNCHANGED <<csv, args, rng, songs, used, picks, cards, card_idx, stderr>>

Next ==
    \/ \E r \in Runs : Setup(r)
    \/ \E r \in Runs : PickCard(r)
    \/ \E r \in Runs : AppendPage(r)
    \/ \E r \in Runs : Finish(r)

Spec == Init /\ [][Next]_vars

\* ------------------------------------------------------------------ two runs, one seed
InitSeed ==
    /\ args \in {a \in ArgSets : a.seed /= <<>>}
    /\ \E p \in 0..MaxPool :
           /\ (args.no_repeat_across /\ p >= args.allow_short) \/ p <= MaxOpenPool
           /\ csv = TrackTable(p)
    /\ InitRun({1, 2})

SpecSeed == InitSeed /\ [][Next]_vars

\* ------------------------------------------------------------------ one allocation, any used set
\* the state main is in before a pick_card_songs call, the used set arbitrary
InitPick ==
    /\ args \in {a \in ArgSets : a.seed = <<>> /\ a.n = 1}
    /\ \E p \in 0..(MaxOpenPool + 1) : csv = TrackTable(p)
    /\ pc = [r \in {1} |-> "loop"]
    /\ rng = [r \in {1} |-> InitRng(args.seed)]
    /\ songs = [r \in {1} |-> ReadSongs(csv).songs]
    /\ used \in [{1} -> SUBSET (Range(ReadSongs(csv).songs) \cup {TrackRow(0)})]
    /\ picks = [r \in {1} |-> <<>>]
    /\ cards = [r \in {1} |-> <<>>]
    /\ card_idx = [r \in {1} |-> 0]
    /\ pdf = [r \in {1} |-> [state |-> "open", pages |-> <<>>]]
    /\ stderr = [r \in {1} |-> <<>>]
    /\ stdout = [r \in {1} |-> <<>>]

NextPick ==
    \/ \E r \in Runs : PickCard(r)
    \/ \E r \in Runs : AppendPage(r)
    \/ \E r \in Runs : Finish(r)

SpecPick == InitPick /\ [][NextPick]_vars

\* ------------------------------------------------------------------ reading a table
Chars == {"a", "A", " "}

Headers ==
    { <<"title", "artists">>, <<"Title", "artist">>, <<"artists", "TRACK">>,
      <<"name", "title">>, <<"artist", "Artists">> }

\* the cells of the second column: empty, plain, and padded in the other case
SecondCells == {<<>>, <<"a">>, <<" ", "A", " ">>}

TableRows == SeqsUpTo(SeqsUpTo(Chars, MaxFirstLen) \X SecondCells, MaxRows)

InitRead ==
    /\ args \in {a \in ArgSets : a.seed = <<>> /\ a.n = 0 /\ a.allow_short = CardSize
                                   /\ ~a.no_repeat_across}
    /\ csv \in [fieldnames : Headers, rows : TableRows]
    /\ InitRun({1})

NextRead ==
    \/ \E r \in Runs : Setup(r)
    \/ \E r \in Runs : Finish(r)

SpecRead == InitRead /\ [][NextRead]_vars

\* ------------------------------------------------------------------ rendering any list
\* the state main is in before draw_card, the list of any length up to one more
\* than the grid has cells
DrawPool == TrackTable(GridRows * GridCols + 1).rows

InitDraw ==
    /\ args \in {a \in ArgSets : a.seed = <<>> /\ a.n = 1 /\ a.allow_short = CardSize
                                   /\ ~a.no_repeat_across}
    /\ csv = TrackTable(GridRows * GridCols + 1)
    /\ pc = [r \in {1} |-> "picked"]
    /\ rng = [r \in {1} |-> InitRng(args.seed)]
    /\ songs = [r \in {1} |-> DrawPool]
    /\ used = [r \in {1} |-> {}]
    /\ picks \in [{1} -> SeqsUpTo(Range(DrawPool), GridRows * GridCols + 1)]
    /\ cards = [r \in {1} |-> <<picks[r]>>]
    /\ card_idx = [r \in {1} |-> 0]
    /\ pdf = [r \in {1} |-> [state |-> "open", pages |-> <<>>]]
    /\ stderr = [r \in {1} |-> <<>>]
    /\ stdout = [r \in {1} |-> <<>>]

NextDraw ==
    \/ \E r \in Runs : AppendPage(r)
    \/ \E r \in Runs : Finish(r)

SpecDraw == InitDraw /\ [][NextDraw]_vars

\* ------------------------------------------------------------------ claims
Finished(r) == pc[r] \in {"done", "failed"}

\* C1: with no-repeat-across requested, the threshold at its default and a pool of
\* at least cardCount * CardSize tracks, no track is on two of the cards produced
\* so far.
C1_NoTrackOnTwoCards ==
    \A r \in Runs :
        ( /\ pc[r] /= "start"
          /\ args.no_repeat_across
          /\ args.allow_short = CardSize
          /\ Len(songs[r]) >= args.n * CardSize )
        => \A i, j \in DOMAIN cards[r] :
               i /= j => Range(cards[r][i]) \cap Range(cards[r][j]) = {}

C1_Witness ==
    \E r \in Runs :
        /\ pc[r] = "done"
        /\ args.no_repeat_across
        /\ args.allow_short = CardSize
        /\ Len(songs[r]) >= args.n * CardSize
        /\ Len(cards[r]) = MaxCards
        /\ Len(pdf[r].pages) = MaxCards

\* C2: with a pool of at least CardSize tracks, whatever the used set and the
\* flag, a pick_card_songs call does not fail and returns CardSize entries, all
\* of them tracks of the pool (the shortage branch included).
C2_FullCardFromPool ==
    \A r \in Runs :
        Len(songs[r]) >= CardSize
        => /\ pc[r] /= "failed"
           /\ \A i \in DOMAIN cards[r] :
                  /\ Len(cards[r][i]) = CardSize
                  /\ Range(cards[r][i]) \subseteq Range(songs[r])

\* a card of the shortage branch: only there an entry comes twice
C2_Witness ==
    \E r \in Runs :
        /\ Len(songs[r]) >= CardSize
        /\ Enforce(args, songs[r])
        /\ Len(cards[r]) = 1
        /\ Cardinality(Range(cards[r][1])) < CardSize

\* C3: with a pool of 1 .. CardSize - 1 tracks the allocation does not fail; the
\* card has CardSize entries, holds every available track and is filled up from
\* the pool.
C3_ShortPoolFills ==
    \A r \in Runs :
        (pc[r] /= "start" /\ Len(songs[r]) >= 1 /\ Len(songs[r]) < CardSize)
        => /\ pc[r] /= "failed"
           /\ \A i \in DOMAIN cards[r] :
                  /\ Len(cards[r][i]) = CardSize
                  /\ Range(cards[r][i]) \subseteq Range(songs[r])
                  /\ (i = 1 => Range(songs[r]) \subseteq Range(cards[r][i]))

\* C4: when the pool has at least CardSize tracks, the entries of every card
\* are pairwise different.
C4_DistinctWithinCard ==
    \A r \in Runs :
        Len(songs[r]) >= CardSize
        => \A i \in DOMAIN cards[r] :
               Cardinality(Range(cards[r][i])) = Len(cards[r][i])

\* C5: when no-repeat-across is in force and an allocation has taken the
\* shortage branch (the cards so far need more tracks than the pool has), the
\* warning has been written.
C5_ShortageWarned ==
    \A r \in Runs :
        ( /\ pc[r] /= "start"
          /\ Enforce(args, songs[r])
          /\ Len(songs[r]) < args.n * CardSize
          /\ Len(songs[r]) < Len(cards[r]) * CardSize )
        => "not enough" \in Range(stderr[r])

\* C6: when no-repeat-across is requested and the pool is below the threshold,
\* the used set stays empty and the warning is written before the first card.
C6_BelowThresholdOffAndWarned ==
    \A r \in Runs :
        ( /\ pc[r] \notin {"start", "failed"}
          /\ args.no_repeat_across
          /\ Len(songs[r]) < args.allow_short )
        => /\ used[r] = {}
           /\ "not enough" \in Range(stderr[r])

\* C7: an allocation from an empty pool ends in the error: no card, the used
\* set as it was, no page appended, the run over.
C7_EmptyPoolFails ==
    [][ \A r \in Runs :
            (pc[r] = "loop" /\ card_idx[r] < args.n /\ songs[r] = <<>>)
            => /\ pc'[r] = "failed"
               /\ used'[r] = used[r]
               /\ cards'[r] = cards[r]
               /\ picks'[r] = picks[r]
               /\ pdf'[r].pages = pdf[r].pages ]_vars

C7_Witness ==
    \E r \in Runs :
        /\ pc[r] = "failed"
        /\ songs[r] = <<>>
        /\ used[r] /= {}
        /\ cards[r] = <<>>
        /\ pdf[r].pages = <<>>

\* C8: two runs with the same seed and the same inputs produce the same cards,
\* entry for entry, the same used set after the same number of cards, and the
\* same final document.
C8_SameSeedSameCards ==
    (args.seed /= <<>> /\ Runs = {1, 2})
    => /\ \A i \in DOMAIN cards[1] \cap DOMAIN cards[2] : cards[1][i] = cards[2][i]
       /\ Len(cards[1]) = Len(cards[2]) => used[1] = used[2]
       /\ (Finished(1) /\ Finished(2))
          => /\ pc[1] = pc[2]
             /\ cards[1] = cards[2]
             /\ pdf[1] = pdf[2]

C8_Witness ==
    /\ Runs = {1, 2}
    /\ args.seed /= <<>>
    /\ pc[1] = "done"
    /\ pc[2] = "done"
    /\ Len(cards[1]) = MaxCards
    /\ Len(cards[2]) = MaxCards
    /\ cards[1][1] /= cards[1][2]

C10_DocumentSequencing ==
    /\ [](\A r \in Runs :
            /\ Len(pdf[r].pages) = card_idx[r]
            /\ Len(cards[r]) = card_idx[r] + (IF pc[r] = "picked" THEN 1 ELSE 0)
            /\ \A i \in DOMAIN pdf[r].pages :
                   /\ pdf[r].pages[i].number = i
                   /\ \A gr \in 0..(GridRows - 1), gc \in 0..(GridCols - 1) :
                          pdf[r].pages[i].cells[gr][gc] =
                              WrapLabel(Label(cards[r][i][gr * GridCols + gc + 1]), WrapWidth)
            /\ pc[r] = "done" => (Len(pdf[r].pages) = args.n /\ pdf[r].state = "closed")
            /\ pdf[r].state = "closed" => Finished(r))
    /\ [][ \A r \in Runs :
            /\ Len(pdf'[r].pages) \in {Len(pdf[r].pages), Len(pdf[r].pages) + 1}
            /\ SubSeq(pdf'[r].pages, 1, Len(pdf[r].pages)) = pdf[r].pages
            /\ pdf[r].state = "closed" => pdf'[r] = pdf[r] ]_vars

C10_Witness ==
    \E r \in Runs :
        /\ pc[r] = "done"
        /\ args.n = MaxCards
        /\ Len(pdf[r].pages) = MaxCards
        /\ pdf[r].state = "closed"
        /\ cards[r][1] /= cards[r][2]

\* C11: draw_card fails for every list whose length is not the number of grid
\* cells, shorter or longer, and for a list of exactly that length puts entry
\* row * GridCols + col into the cell of that row and column.
C11_DrawCardExactSize ==
    \A r \in Runs :
        pc[r] /= "picked"
        => /\ pc[r] = "failed" <=> Len(picks[r]) /= GridRows * GridCols
           /\ pc[r] /= "failed"
              => /\ Len(pdf[r].pages) = 1
                 /\ \A gr \in 0..(GridRows - 1), gc \in 0..(GridCols - 1) :
                        pdf[r].pages[1].cells[gr][gc] =
                            WrapLabel(Label(picks[r][gr * GridCols + gc + 1]), WrapWidth)

\* C12: a pick_card_songs call that returns leaves the pool as it was; with the
\* flag on, the used set afterwards is the used set before plus every track
\* returned (those of the shortage fill included), so it only grows and, if it
\* was within the pool, stays within it; with the flag off it is unchanged.
C12_PickFrame ==
    [][ \A r \in Runs :
            (pc[r] = "loop" /\ pc'[r] = "picked")
            => /\ songs'[r] = songs[r]
               /\ csv' = csv
               /\ IF Enforce(args, songs[r])
                  THEN /\ used'[r] = used[r] \cup Range(picks'[r])
                       /\ used[r] \subseteq used'[r]
                       /\ used[r] \subseteq Range(songs[r]) => used'[r] \subseteq Range(songs[r])
                  ELSE used'[r] = used[r] ]_vars

\* a returned shortage card with the flag on (an entry comes twice), the used
\* set holding it and tracks used before
C12_Witness ==
    \E r \in Runs :
        /\ pc[r] = "picked"
        /\ Enforce(args, songs[r])
        /\ Range(picks[r]) \subseteq used[r]
        /\ used[r] \subseteq Range(songs[r])
        /\ used[r] /= Range(picks[r])
        /\ Len(picks[r]) = CardSize
        /\ Cardinality(Range(picks[r])) < CardSize

====
